---- MODULE Spec2Model ----
(***************************************************************************)
(* A model of the redis-rs server: the RESP codec (src/src/parser.rs), the *)
(* expiring key-value store (src/src/storage.rs) and the per-connection    *)
(* tasks that share the store behind an async mutex (src/src/main.rs).     *)
(*                                                                         *)
(* Text is modelled as a sequence of tokens.  A token is a string that the *)
(* code never looks inside: the markers the codec tests for ("*", "$",     *)
(* "\r\n") are tokens of their own, so split and starts_with are computed  *)
(* on the token sequence the way the code computes them on bytes.          *)
(* Rust indices are 0-based; Part(parts, i) is the code's parts[i].        *)
(***************************************************************************)
EXTENDS Integers, Sequences, FiniteSets, TLC

\* ---------------------------------------------------------------- bounds
\* Buffers the server reads, over all connections.
MaxReads == 3
\* Times the clock is observed to have advanced.
MaxTicks == 2
\* pairs in the database section of a generated snapshot
MaxPairs == 2
\* options in a list given to Storage::set
MaxOptions == 2
\* words after the value in a generated SET frame
MaxOptionWords == 3
\* bytes after the first in a buffer given to decode_length
MaxTail == 4

\* ------------------------------------------------------- Option<T> values
None == <<>>
Some(x) == <<x>>
IsSome(o) == o # <<>>
Unwrap(o) == o[1]

\* ------------------------------------------------------------------ text
CRLF == "\r\n"

\* A byte that is not valid UTF-8 (0xFF never occurs in UTF-8).
BadByte == "0xFF"

\* str::from_utf8 succeeds iff no byte sequence of the input is invalid.
from_utf8_ok(input) == \A i \in DOMAIN input : input[i] # BadByte

\* input.split("\r\n"), left to right: the segment being collected and the
\* segments already cut.  The last segment is always emitted, also when empty.
RECURSIVE SplitAcc(_, _, _)
SplitAcc(rest, cur, acc) ==
    IF rest = <<>> THEN Append(acc, cur)
    ELSE IF Head(rest) = CRLF
         THEN SplitAcc(Tail(rest), <<>>, Append(acc, cur))
         ELSE SplitAcc(Tail(rest), Append(cur, Head(rest)), acc)

split(input) == SplitAcc(input, <<>>, <<>>)

\* parts[i] of the code (0-based).
Part(parts, i) == parts[i + 1]

\* char-wise upper-casing, on the tokens the inputs use.
UpperTok(t) ==
    CASE t = "ping" -> "PING"
      [] t = "echo" -> "ECHO"
      [] t = "get" -> "GET"
      [] t = "set" -> "SET"
      [] t = "config" -> "CONFIG"
      [] t = "foobar" -> "FOOBAR"
      [] t = "ex" -> "EX"
      [] t = "px" -> "PX"
      [] t = "dir" -> "DIR"
      [] OTHER -> t

to_uppercase(s) == [i \in DOMAIN s |-> UpperTok(s[i])]

\* s.starts_with(p) for a one-token prefix p: markers are tokens of their own.
starts_with(s, p) == s # <<>> /\ s[1] = p

\* s.len(): the byte length of a text.
RECURSIVE ByteLen(_)
ByteLen(s) == IF s = <<>> THEN 0 ELSE Len(Head(s)) + ByteLen(Tail(s))

\* ------------------------------------------------------------- Command
PING(message) == [tag |-> "PING", a |-> message, b |-> None, opts |-> None]
ECHO(message) == [tag |-> "ECHO", a |-> Some(message), b |-> None, opts |-> None]
SET(key, value, optional) ==
    [tag |-> "SET", a |-> Some(key), b |-> Some(value), opts |-> optional]
GET(key) == [tag |-> "GET", a |-> Some(key), b |-> None, opts |-> None]
CONFIGGET(entry) == [tag |-> "CONFIGGET", a |-> Some(entry), b |-> None, opts |-> None]
UNKNOWN(name) == [tag |-> "UNKNOWN", a |-> Some(name), b |-> None, opts |-> None]
\* Result::Err(reason) of parse_command.
Err(reason) == [tag |-> "Err", a |-> Some(reason), b |-> None, opts |-> None]
\* An index past the end of parts: the slice access panics.
Panic(what) == [tag |-> "Panic", a |-> Some(what), b |-> None, opts |-> None]
NoCommand == [tag |-> "none", a |-> None, b |-> None, opts |-> None]

CommandTags == {"PING", "ECHO", "SET", "GET", "CONFIGGET", "UNKNOWN"}

\* chunks(2) with the odd last chunk dropped, the name upper-cased.
RECURSIVE Pairs(_)
Pairs(s) ==
    IF Len(s) < 2 THEN <<>>
    ELSE <<  <<to_uppercase(s[1]), s[2]>>  >> \o Pairs(Tail(Tail(s)))

\* .filter(|s| !s.is_empty())
NonEmpty(s) == s # <<>>
\* .filter(|s| !s.starts_with("$"))
NotLengthMarker(s) == ~starts_with(s, "$")

group_redis_optional_arguments(options) == Pairs(SelectSeq(options, NonEmpty))

\* The SET branch of parse_command.
parse_set(parts) ==
    IF Len(parts) < 7
    THEN IF Len(parts) < 6
         THEN Err(<<"Invalid SET command format">>)
         ELSE Err(<<"Invalid SET command format: value not provided">>)
    ELSE IF Len(parts) = 8
         THEN SET(Part(parts, 4), Part(parts, 6), None)
         ELSE IF Len(parts) > 8
              THEN SET(Part(parts, 4), Part(parts, 6),
                       Some(group_redis_optional_arguments(
                                SelectSeq(SubSeq(parts, 9, Len(parts)), NotLengthMarker))))
              ELSE Err(<<"Invalid SET command format: Unknown optional parameters">>)

\* The match on the command name, after the CONFIG rewrite.
match_command(command, parts) ==
    CASE command = <<"ECHO">> ->
           IF Len(parts) < 6 THEN Err(<<"Invalid ECHO command format">>)
           ELSE ECHO(Part(parts, 4))
      [] command = <<"PING">> ->
           IF Len(parts) < 4 THEN Err(<<"Invalid PING command format">>)
           ELSE IF Len(parts) >= 6 THEN PING(Some(Part(parts, 4)))
           ELSE PING(None)
      [] command = <<"SET">> -> parse_set(parts)
      [] command = <<"GET">> ->
           IF Len(parts) < 6
           THEN IF Len(parts) < 5
                THEN Err(<<"Invalid GET command format">>)
                ELSE Err(<<"Invalid GET command format: key not provided">>)
           ELSE GET(Part(parts, 4))
      [] command = <<"CONFIG", " ", "GET">> ->
           IF Len(parts) < 5 THEN Err(<<"Invalid CONFIG GET command format">>)
           ELSE IF Len(parts) <= 6 THEN Panic(<<"index out of bounds: parts[6]">>)
           ELSE CONFIGGET(Part(parts, 6))
      [] OTHER -> UNKNOWN(command)

parse_command(command_input) ==
    IF ~from_utf8_ok(command_input)
    THEN Err(<<"Invalid UTF-8 sequence: ", "invalid utf-8 sequence">>)
    ELSE LET parts == split(command_input) IN
         IF Len(parts) < 4 \/ ~starts_with(Part(parts, 0), "*")
         THEN Err(<<"Invalid RESP format">>)
         ELSE LET name == to_uppercase(Part(parts, 2)) IN
              IF starts_with(name, "CONFIG")
              THEN IF Len(parts) <= 4
                   THEN Panic(<<"index out of bounds: parts[4]">>)
                   ELSE match_command(name \o <<" ">> \o to_uppercase(Part(parts, 4)),
                                      parts)
              ELSE match_command(name, parts)

\* ----------------------------------------------------------- RedisValue
SimpleString(s) == [type |-> "SimpleString", text |-> Some(s), items |-> <<>>]
BulkString(o) == [type |-> "BulkString", text |-> o, items |-> <<>>]
Array(values) == [type |-> "Array", text |-> None, items |-> values]
Error(s) == [type |-> "Error", text |-> Some(s), items |-> <<>>]

RECURSIVE SerializeItems(_)
SerializeItems(values) ==
    IF values = <<>> THEN <<>>
    ELSE <<"$", ToString(ByteLen(Head(values))), CRLF>> \o Head(values) \o <<CRLF>>
         \o SerializeItems(Tail(values))

serialize_response(value) ==
    CASE value.type = "SimpleString" -> <<"+">> \o Unwrap(value.text) \o <<CRLF>>
      [] value.type = "BulkString" /\ IsSome(value.text) ->
           <<"$", ToString(ByteLen(Unwrap(value.text))), CRLF>>
           \o Unwrap(value.text) \o <<CRLF>>
      [] value.type = "BulkString" /\ ~IsSome(value.text) -> <<"$", "-1", CRLF>>
      [] value.type = "Error" -> <<"-">> \o Unwrap(value.text) \o <<CRLF>>
      [] value.type = "Array" ->
           <<"*", ToString(Len(value.items)), CRLF>> \o SerializeItems(value.items)

\* --------------------------------------------------------------- Config
Config_get(cfg, key) == IF key \in DOMAIN cfg THEN Some(cfg[key]) ELSE None

\* --------------------------------------------------------------- Storage
\* Instants and durations are counted in milliseconds.
MillisPerSec == 1000
from_secs(d) == d * MillisPerSec
from_millis(d) == d

\* str::parse::<u64>() on the option values the inputs use: decimal digits
\* only, no sign.
DecimalValue == (<<"0">> :> 0) @@ (<<"1">> :> 1) @@ (<<"2">> :> 2)
\* A parse that takes what is not a number for 0.
parse_u64_or_zero(s) == IF s \in DOMAIN DecimalValue THEN Some(DecimalValue[s]) ELSE Some(0)

parse_u64(s) == IF s \in DOMAIN DecimalValue THEN Some(DecimalValue[s]) ELSE None

StorageValue(value, created_at, expires_at) ==
    [value |-> value, created_at |-> created_at, expires_at |-> expires_at]

\* A loop in which the first expiry that is set stays.
RECURSIVE apply_options_first_wins(_, _, _)
apply_options_first_wins(options, created_at, expires_at) ==
    IF options = <<>> THEN expires_at
    ELSE LET argument == Head(options)[1]
             duration == parse_u64(Head(options)[2])
         IN apply_options_first_wins(
                Tail(options), created_at,
                CASE IsSome(expires_at) -> expires_at
                  [] argument = <<"EX">> /\ IsSome(duration) ->
                       Some(created_at + from_secs(Unwrap(duration)))
                  [] argument = <<"PX">> /\ IsSome(duration) ->
                       Some(created_at + from_millis(Unwrap(duration)))
                  [] OTHER -> expires_at)

\* The loop over the options of set: each recognized option with a value that
\* parses overwrites expires_at; anything else leaves it as it is.
RECURSIVE apply_options(_, _, _)
apply_options(options, created_at, expires_at) ==
    IF options = <<>> THEN expires_at
    ELSE LET argument == Head(options)[1]
             duration == parse_u64(Head(options)[2])
         IN apply_options(
                Tail(options), created_at,
                CASE argument = <<"EX">> /\ IsSome(duration) ->
                       Some(created_at + from_secs(Unwrap(duration)))
                  [] argument = <<"PX">> /\ IsSome(duration) ->
                       Some(created_at + from_millis(Unwrap(duration)))
                  [] OTHER -> expires_at)

\* DashMap::insert: the entry for key is replaced whole.
insert(map, key, entry) ==
    [k \in DOMAIN map \cup {key} |-> IF k = key THEN entry ELSE map[k]]

\* A set that starts from the expiry of the entry it replaces.
Storage_set_keeping_expiry(map, key, value, options, t) ==
    insert(map, key,
           StorageValue(value, t,
                        apply_options(options, t,
                                      IF key \in DOMAIN map THEN map[key].expires_at
                                      ELSE None)))

\* Storage::set at instant t.
Storage_set(map, key, value, options, t) ==
    insert(map, key, StorageValue(value, t, apply_options(options, t, None)))

\* A remove that leaves the map as it is.
Storage_remove_nothing(map, key) == map

\* Storage::remove.
Storage_remove(map, key) == [k \in DOMAIN map \ {key} |-> map[k]]

\* self.storage.get(key): a reference to the entry, if there is one.
lookup(map, key) == IF key \in DOMAIN map THEN Some(map[key]) ELSE None

\* The expiry test of Storage::get at instant t.
is_expired(entry, t) == IsSome(entry.expires_at) /\ Unwrap(entry.expires_at) < t

\* ------------------------------------------------------- snapshot: bytes
\* A buffer is a sequence of bytes 0..255.  Rust indices are 0-based:
\* At(data, i) is the code's data[i], which panics unless i < data.len(), and
\* From(data, i) is &data[i..], which panics unless i <= data.len().
At(data, i) == data[i + 1]
From(data, i) == SubSeq(data, i + 1, Len(data))
Range(data, i, j) == SubSeq(data, i + 1, j)

\* x << n
shl(x, n) == x * 2 ^ n

\* The k low bytes of n, low byte first (usize::to_le_bytes for k = 8).
RECURSIVE to_le_bytes(_, _)
to_le_bytes(n, k) == IF k = 0 THEN <<>> ELSE <<n % 256>> \o to_le_bytes(n \div 256, k - 1)

\* u32::from_le_bytes and u64::from_le_bytes.
RECURSIVE from_le_bytes(_)
from_le_bytes(bytes) ==
    IF bytes = <<>> THEN 0 ELSE Head(bytes) + 256 * from_le_bytes(Tail(bytes))

\* A signed integer is kept as the eight bytes of its i64, low byte first:
\* an unsigned byte is extended with zeros, a signed little-endian integer
\* with copies of its sign.
zero_extend(bytes) == bytes \o [i \in 1..(8 - Len(bytes)) |-> 0]
sign_extend(bytes) ==
    bytes \o [i \in 1..(8 - Len(bytes)) |-> IF bytes[Len(bytes)] >= 128 THEN 255 ELSE 0]

\* What a call returned is handed on as a value: the call is made once.
Bind(returned_value, F(_)) == CHOOSE out \in {F(r) : r \in {returned_value}} : TRUE

\* What a decoding function returns: Ok((n, v)) with n the bytes consumed,
\* Err(e), or a panic (an index or a slice out of range, an unwrap of Err).
DecodeOk(n, v) == [tag |-> "Ok", n |-> n, v |-> v]
DecodeErr(e) == [tag |-> "Err", n |-> 0, v |-> e]
DecodePanic(what) == [tag |-> "Panic", n |-> 0, v |-> what]

\* A decode_length whose two-byte form drops the six bits of the first byte.
decode_length_low_byte_only(data) ==
    IF data = <<>> THEN DecodeErr("Empty data when decoding length")
    ELSE LET first_byte == At(data, 0) IN
         CASE first_byte <= 63 -> DecodeOk(1, first_byte)
           [] first_byte \in 64..127 ->
                IF Len(data) < 2 THEN DecodeErr("Insufficient data for medium length")
                ELSE DecodeOk(2, At(data, 1))
           [] first_byte \in 128..191 ->
                IF Len(data) < 4 THEN DecodeErr("Insufficient data for long length")
                ELSE DecodeOk(4, shl(first_byte % 64, 24) + shl(At(data, 1), 16)
                                 + shl(At(data, 2), 8) + At(data, 3))
           [] first_byte \in 192..253 -> DecodeOk(1, first_byte - 192)
           [] first_byte = 254 ->
                IF Len(data) < 5 THEN DecodeErr("Insufficient data for 32-bit length")
                ELSE DecodeOk(5, from_le_bytes(Range(data, 1, 5)))
           [] OTHER -> DecodeErr("Invalid length encoding (255)")

\* RDBParser::decode_length.  first_byte & 0x3f is first_byte % 64, and the
\* fields or-ed together do not overlap, so | is +.
decode_length(data) ==
    IF data = <<>> THEN DecodeErr("Empty data when decoding length")
    ELSE LET first_byte == At(data, 0) IN
         CASE first_byte <= 63 -> DecodeOk(1, first_byte)
           [] first_byte \in 64..127 ->
                IF Len(data) < 2 THEN DecodeErr("Insufficient data for medium length")
                ELSE DecodeOk(2, shl(first_byte % 64, 8) + At(data, 1))
           [] first_byte \in 128..191 ->
                IF Len(data) < 4 THEN DecodeErr("Insufficient data for long length")
                ELSE DecodeOk(4, shl(first_byte % 64, 24) + shl(At(data, 1), 16)
                                 + shl(At(data, 2), 8) + At(data, 3))
           [] first_byte \in 192..253 -> DecodeOk(1, first_byte - 192)
           [] first_byte = 254 ->
                IF Len(data) < 5 THEN DecodeErr("Insufficient data for 32-bit length")
                ELSE DecodeOk(5, from_le_bytes(Range(data, 1, 5)))
           [] OTHER -> DecodeErr("Invalid length encoding (255)")

\* RDBParser::decode_integer.  The 0xC0 arm reads data[1] unchecked.
decode_integer(data) ==
    IF data = <<>> THEN DecodeErr("Empty data")
    ELSE LET first_byte == At(data, 0) IN
         CASE first_byte = 192 ->
                IF Len(data) < 2 THEN DecodePanic("data[1]")
                ELSE DecodeOk(2, zero_extend(Range(data, 1, 2)))
           [] first_byte = 193 ->
                IF Len(data) < 3 THEN DecodeErr("Insufficient data for 16-bit integer")
                ELSE DecodeOk(3, sign_extend(Range(data, 1, 3)))
           [] first_byte = 194 ->
                IF Len(data) < 5 THEN DecodeErr("Insufficient data for 32-bit integer")
                ELSE DecodeOk(5, sign_extend(Range(data, 1, 5)))
           [] first_byte = 195 ->
                IF Len(data) < 9 THEN DecodeErr("Insufficient data for 64-bit integer")
                ELSE DecodeOk(9, Range(data, 1, 9))
           [] first_byte \in 196..223 -> DecodeOk(1, zero_extend(<<first_byte % 64>>))
           [] OTHER -> DecodeErr("Invalid integer encoding")

\* decode_length_encoded_data once the length is decoded: the payload is the
\* length.v bytes after the length.n bytes of the length.
take_payload(data, length_call) ==
    Bind(length_call, LAMBDA length :
        IF length.tag # "Ok" THEN length
        ELSE IF Len(data) < length.n + length.v
        THEN DecodeErr("Insufficient data for encoded string")
        ELSE DecodeOk(length.n + length.v, Range(data, length.n, length.n + length.v)))

\* RDBParser::decode_length_encoded_data.
decode_length_encoded_data(data) ==
    IF data = <<>> THEN DecodeErr("Empty data when decoding length-encoded data")
    ELSE take_payload(data, decode_length(data))

\* ------------------------------------------------------ snapshot: values
\* `?` on a decoded piece: an Err (or a panic) is handed up; an Ok moves the
\* cursor index past the piece.
advance(index, piece_call) ==
    Bind(piece_call, LAMBDA piece :
        IF piece.tag # "Ok" THEN piece ELSE DecodeOk(index + piece.n, piece.v))

\* The loops of decode_value over the count elements of a list or set (one
\* string each), a sorted set (a member and a length-decoded score) or a hash
\* (a field and a value), from the cursor index on; flat collects the
\* elements, each followed by a comma.
RECURSIVE decode_elements(_, _, _, _, _)

\* The score of a sorted set's member is decoded as a length and unwrapped.
element_score(data, index, count, value_type, flat, score_call) ==
    Bind(score_call, LAMBDA score :
        IF score.tag # "Ok" THEN DecodePanic("decode_length(..).unwrap()")
        ELSE decode_elements(data, index + score.n, count - 1, value_type,
                             flat \o to_le_bytes(score.v, 8) \o <<44>>))

\* The value of a hash's field.
element_value(data, index, count, value_type, flat, value_call) ==
    Bind(value_call, LAMBDA value :
        IF value.tag # "Ok" THEN value
        ELSE decode_elements(data, index + value.n, count - 1, value_type,
                             flat \o value.v \o <<44>>))

\* The first string of an element is decoded: the element of a list or set,
\* the member of a sorted set, the field of a hash.
element_first(data, index, count, value_type, flat, first_call) ==
    Bind(first_call, LAMBDA first :
        IF first.tag # "Ok" THEN first
        ELSE IF value_type \in {1, 2}
        THEN decode_elements(data, index + first.n, count - 1, value_type,
                             flat \o first.v \o <<44>>)
        ELSE IF value_type = 3
        THEN element_score(data, index + first.n, count, value_type,
                           flat \o first.v \o <<58>>,
                           decode_length(From(data, index + first.n)))
        ELSE element_value(data, index + first.n, count, value_type,
                           flat \o first.v \o <<58>>,
                           decode_length_encoded_data(From(data, index + first.n))))

decode_elements(data, index, count, value_type, flat) ==
    IF count = 0 THEN DecodeOk(index, flat)
    ELSE element_first(data, index, count, value_type, flat,
                       decode_length_encoded_data(From(data, index)))

\* if !list.is_empty() { list.pop(); }
pop_separator(flat) == IF flat = <<>> THEN flat ELSE SubSeq(flat, 1, Len(flat) - 1)

\* The elements are decoded: the last separator goes.
joined(elements_call) ==
    Bind(elements_call, LAMBDA elements :
        IF elements.tag # "Ok" THEN elements
        ELSE DecodeOk(elements.n, pop_separator(elements.v)))

\* The count of a list, set, sorted set or hash is decoded and unwrapped.
collection(data, value_type, index, length_call) ==
    Bind(length_call, LAMBDA length :
        IF length.tag # "Ok" THEN DecodePanic("decode_length(..).unwrap()")
        ELSE joined(decode_elements(data, index + length.n, length.v, value_type, <<>>)))

\* RDBParser::decode_value with the cursor at index; Ok carries the cursor
\* after the value.  index <= data.len() at every call.
decode_value(data, value_type, index) ==
    CASE value_type = 0 -> advance(index, decode_length_encoded_data(From(data, index)))
      [] value_type \in {1, 2, 3, 4} ->
           collection(data, value_type, index, decode_length(From(data, index)))
      [] value_type \in {9, 10, 11, 12} ->
           advance(index, decode_integer(From(data, index)))
      [] value_type \in {55, 250} ->
           IF index < Len(data) THEN DecodeOk(index + 1, <<At(data, index)>>)
           ELSE DecodeErr("Unexpected end of data")
      [] OTHER -> DecodeErr("Unknown or unsupported encoding")

\* The value that goes with key is decoded, with the cursor after it.
paired(key, value_call) ==
    Bind(value_call, LAMBDA value :
        IF value.tag # "Ok" THEN value ELSE DecodeOk(value.n, <<key, value.v>>))

\* The key of a pair is decoded, index the cursor before it.
pair_value(data, value_type, index, key_call) ==
    Bind(key_call, LAMBDA key :
        IF key.tag # "Ok" THEN key
        ELSE paired(key.v, decode_value(data, value_type, index + key.n)))

\* RDBParser::process_key_value_pair: the type tag is read unchecked.
process_key_value_pair(data, index) ==
    IF index >= Len(data) THEN DecodePanic("data[*index]")
    ELSE pair_value(data, At(data, index), index + 1,
                    decode_length_encoded_data(From(data, index + 1)))

\* ------------------------------------------------- snapshot: the sections
\* str::from_utf8 on the header bytes the inputs use: ASCII, or 0xFF, a byte
\* no UTF-8 text holds.
utf8_ok(bytes) == \A i \in DOMAIN bytes : bytes[i] < 128

IsDigits(bytes) == bytes # <<>> /\ \A i \in DOMAIN bytes : bytes[i] \in 48..57

RECURSIVE DigitsValue(_)
DigitsValue(bytes) ==
    IF bytes = <<>> THEN 0
    ELSE 10 * DigitsValue(SubSeq(bytes, 1, Len(bytes) - 1)) + (bytes[Len(bytes)] - 48)

\* RDBParser::parse_rdb_version.  u32's FromStr takes decimal digits after an
\* optional "+".
parse_rdb_version(data) ==
    IF Len(data) < 9 THEN DecodeErr("Input data too short to parse RDB version")
    ELSE IF ~utf8_ok(Range(data, 0, 5)) THEN DecodeErr("Invalid magic string")
    ELSE IF Range(data, 0, 5) # <<82, 69, 68, 73, 83>>
    THEN DecodeErr("Invalid RDB file. Magic String is missing")
    ELSE LET version == Range(data, 5, 9)
             digits == IF version[1] = 43 THEN Tail(version) ELSE version
         IN IF utf8_ok(version) /\ IsDigits(digits) THEN DecodeOk(9, DigitsValue(digits))
            ELSE DecodeErr("Invalid RDB version")

\* The key of an auxiliary field is decoded, index the cursor before it.  The
\* byte after the key is read unchecked: an integer marker 0xC0 to 0xC3, or
\* the length of a string.
aux_value(data, index, key_call) ==
    Bind(key_call, LAMBDA key :
        IF key.tag # "Ok" THEN key
        ELSE IF index + key.n >= Len(data) THEN DecodePanic("data[index]")
        ELSE paired(key.v,
                    advance(index + key.n,
                            IF At(data, index + key.n) \in 192..195
                            THEN decode_integer(From(data, index + key.n))
                            ELSE decode_length_encoded_data(From(data, index + key.n)))))

\* One turn of the while loop of parse_auxiliary_fields, entered with
\* index < data.len() and data[index] = 0xFA; Ok carries the cursor after the
\* field and the (key, value) pushed.
aux_iteration(data, index) ==
    aux_value(data, index + 1, decode_length_encoded_data(From(data, index + 1)))

\* What a turn of the while loop of process_entries pushes.
NoEntry == [kind |-> "none", key |-> <<>>, value |-> <<>>, expiry |-> 0]
Entry(pair) == [kind |-> "entry", key |-> pair[1], value |-> pair[2], expiry |-> 0]
ExpiryEntry(pair, expiry) ==
    [kind |-> "expiry", key |-> pair[1], value |-> pair[2], expiry |-> expiry]

\* A turn that pushes nothing, a pair without an expiry, a pair with one.
skipped(piece_call) ==
    Bind(piece_call, LAMBDA piece :
        IF piece.tag # "Ok" THEN piece ELSE DecodeOk(piece.n, NoEntry))

\* A turn that pushes its pair and puts the cursor back at the start.
without_expiry_rewinding(pair_call) ==
    Bind(pair_call, LAMBDA pair :
        IF pair.tag # "Ok" THEN pair ELSE DecodeOk(0, Entry(pair.v)))

without_expiry(pair_call) ==
    Bind(pair_call, LAMBDA pair :
        IF pair.tag # "Ok" THEN pair ELSE DecodeOk(pair.n, Entry(pair.v)))

\* A turn that forgets the expiry it has read.
with_expiry_as_plain(expiry_time, pair_call) ==
    Bind(pair_call, LAMBDA pair :
        IF pair.tag # "Ok" THEN pair ELSE DecodeOk(pair.n, Entry(pair.v)))

with_expiry(expiry_time, pair_call) ==
    Bind(pair_call, LAMBDA pair :
        IF pair.tag # "Ok" THEN pair ELSE DecodeOk(pair.n, ExpiryEntry(pair.v, expiry_time)))

\* The resizedb field after its marker: two lengths, decoded and dropped.
resize_db(data, index, size_call) ==
    Bind(size_call, LAMBDA size :
        IF size.tag # "Ok" THEN size
        ELSE skipped(advance(index + size.n, decode_length(From(data, index + size.n)))))

\* One turn of the while loop of process_entries, entered with
\* index < data.len(); data is the slice the function was given.  Ok carries
\* the cursor after the turn and what was pushed, Break the 0xFF arm.  The
\* bytes of an expiry are read unchecked.  An expiry is a SystemTime, counted
\* in milliseconds since UNIX_EPOCH.
entries_iteration(data, index) ==
    LET marker == At(data, index)
        expiry_bytes == IF marker = 253 THEN 5 ELSE 9
    IN
    CASE marker = 254 ->
           IF index + 2 < Len(data) /\ At(data, index + 2) = 251
           THEN resize_db(data, index + 3, decode_length(From(data, index + 3)))
           ELSE DecodeOk(index + 2, NoEntry)
      [] marker \in {253, 252} ->
           IF index + expiry_bytes > Len(data) THEN DecodePanic("data[index + i]")
           ELSE with_expiry(
                    IF marker = 253
                    THEN from_secs(from_le_bytes(Range(data, index + 1, index + 5)))
                    ELSE from_millis(from_le_bytes(Range(data, index + 1, index + 9))),
                    process_key_value_pair(data, index + expiry_bytes))
      [] marker = 255 -> [tag |-> "Break", n |-> index, v |-> NoEntry]
      [] OTHER -> without_expiry(process_key_value_pair(data, index))

\* -------------------------------------------------- snapshot: RDBParser
\* An RDBParser and, while parse runs on it, the locals of the call: at is
\* the place parse has reached ("version", "aux" for the loop of
\* parse_auxiliary_fields, "entries" for the loop of process_entries,
\* "returned"), index the cursor of the running loop, start the offset of the
\* slice process_entries was given, fields and pushed what the loops have
\* pushed, result how parse ended, turns the loop turns taken so far.
RDBParser_new(data) ==
    [data |-> data, rdb_version |-> 0, aux_fields |-> <<>>, entries |-> <<>>,
     expiry_entries |-> <<>>,
     at |-> "version", index |-> 0, start |-> 0, fields |-> <<>>, pushed |-> <<>>,
     result |-> "running", turns |-> 0]

\* parse returns: an Err or a panic leaves the parser's entries as they were.
returned(p, result) == [p EXCEPT !.at = "returned", !.result = result]

IsEntry(e) == e.kind = "entry"
IsExpiryEntry(e) == e.kind = "expiry"

\* process_entries returned Ok: parse extends self.entries and
\* self.expiry_entries with what the loop pushed and returns Ok(()).
parse_ok(p) ==
    [p EXCEPT !.at = "returned", !.result = "Ok",
              !.entries = @ \o SelectSeq(p.pushed, IsEntry),
              !.expiry_entries = @ \o SelectSeq(p.pushed, IsExpiryEntry)]

\* The while condition of parse_auxiliary_fields.
aux_loop_runs(p) == p.index < Len(p.data) /\ At(p.data, p.index) = 250

\* The while condition of process_entries, on the slice it was given.
entries_loop_runs(p) == p.index < Len(From(p.data, p.start))

\* parse_rdb_version has returned.
version_read(p, version_call) ==
    Bind(version_call, LAMBDA version :
        IF version.tag # "Ok" THEN returned(p, version.tag)
        ELSE [p EXCEPT !.rdb_version = version.v, !.at = "aux", !.index = 9])

\* A turn of the loop of parse_auxiliary_fields has ended.
aux_turn(p, turn_call) ==
    Bind(turn_call, LAMBDA turn :
        IF turn.tag # "Ok" THEN returned([p EXCEPT !.turns = @ + 1], turn.tag)
        ELSE [p EXCEPT !.index = turn.n, !.fields = Append(@, turn.v), !.turns = @ + 1])

\* A turn of the loop of process_entries has ended.
entries_turn(p, turn_call) ==
    Bind(turn_call, LAMBDA turn :
        CASE turn.tag = "Ok" ->
               [p EXCEPT !.index = turn.n,
                         !.pushed = IF turn.v.kind = "none" THEN @ ELSE Append(@, turn.v),
                         !.turns = @ + 1]
          [] turn.tag = "Break" -> parse_ok([p EXCEPT !.turns = @ + 1])
          [] OTHER -> returned([p EXCEPT !.turns = @ + 1], turn.tag))

\* parse, from one place to the next: the header, or one turn of a loop, or
\* the end of a loop.
parse_step(p) ==
    CASE p.at = "version" -> version_read(p, parse_rdb_version(p.data))
      [] p.at = "aux" /\ aux_loop_runs(p) -> aux_turn(p, aux_iteration(p.data, p.index))
      [] p.at = "aux" /\ ~aux_loop_runs(p) ->
           [p EXCEPT !.aux_fields = p.fields, !.at = "entries", !.start = p.index,
                     !.index = 0]
      [] p.at = "entries" /\ entries_loop_runs(p) ->
           entries_turn(p, entries_iteration(From(p.data, p.start), p.index))
      [] p.at = "entries" /\ ~entries_loop_runs(p) -> parse_ok(p)
      [] OTHER -> p

\* RDBParser::parse, run to its return.
RECURSIVE parse(_)
parse(p) == IF p.at = "returned" THEN p ELSE parse(parse_step(p))

\* The place of the cursor in the whole buffer.
Cursor(p) == p.start + p.index

\* ------------------------------------------------------------ the server
VARIABLES
    now,          \* Instant::now(), in milliseconds
    nticks,       \* clock advances so far
    store,        \* Storage.storage: key -> StorageValue
    config,       \* Config.config: name -> value
    storageLock,  \* the connection task that holds the Storage mutex, or NoOwner
    configLock,   \* the connection task that holds the Config mutex, or NoOwner
    pc,           \* each connection task's position in handle_connection:
                  \* the await it is suspended at
    cmd,          \* the result of parse_command on the buffer read
    found,        \* Storage::get's reference to the entry it looked up
    ret,          \* the value Storage::get returned
    response,     \* the serialized response about to be written
    nreads,       \* buffers read so far
    pending,      \* request frames of the buffer read last that have no
                  \* response yet
    lastOp,       \* the store operation completed last: <<"set" | "get", key>>
    lastSet,      \* per key, the last set: [value, opts, at], if any
    prevExpiry,   \* per key, the instant at which the set before the last
                  \* asked, by a single EX option, for the entry to expire
    goneGets,     \* per key, the gets since the last set that found the
                  \* entry expired or, after that, absent: 0, 1, or 2 for more
    mainpc,       \* main's position: "args", "load", "accept", or "aborted"
                  \* after a panic
    cli,          \* the command-line arguments, without the binary's name
    file,         \* the file at {dir}/{dbfilename}
    rdb,          \* the RDBParser of populate_hot_storage, as parse left it
    given,        \* what the buffer given to the RDBParser was built from
    call          \* a function called on its own: its name, its arguments
                  \* and what it returned

\* The state of the connection tasks and of what they share.
serverVars == <<now, nticks, store, config, storageLock, configLock, pc, cmd, found,
                ret, response, nreads, pending, lastOp, lastSet, prevExpiry, goneGets>>

\* The state of startup and of the snapshot decoder.
startupVars == <<mainpc, cli, file, rdb, given>>

vars == <<serverVars, startupVars, call>>

\* The connections the listener accepts, in this order.
Conns == {1, 2}
NoOwner == 0

\* The clock advances by a millisecond or by a second.
TickSteps == {1, MillisPerSec}

\* ------------------------------------------------------- client requests
Key1 == <<"a">>
Keys == {Key1}

\* A bulk string: $<len>\r\n<data>\r\n.
Bulk(s) == <<"$", ToString(ByteLen(s)), CRLF>> \o s \o <<CRLF>>

RECURSIVE Bulks(_)
Bulks(args) == IF args = <<>> THEN <<>> ELSE Bulk(Head(args)) \o Bulks(Tail(args))

\* A request frame: *<count>\r\n followed by one bulk string per argument.
Frame(args) == <<"*", ToString(Len(args)), CRLF>> \o Bulks(args)

\* The buffers of store traffic: one read of the server gets one of them.
StoreInputs ==
    { Frame(<< <<"SET">>, Key1, <<"v1">>, <<"EX">>, <<"0">> >>),
      Frame(<< <<"SET">>, Key1, <<"v1">>, <<"ex">>, <<"1">> >>),
      Frame(<< <<"SET">>, Key1, <<"v2">> >>),
      Frame(<< <<"GET">>, Key1 >>),
      Frame(<< <<"CONFIG">>, <<"GET">>, <<"dir">> >>),
      Frame(<< <<"PING">> >>) }

\* The buffers of a client that also sends commands the server does not know,
\* malformed and cut-off frames, and two frames in one buffer.
WireInputs ==
    StoreInputs \cup
    { Frame(<< <<"ping">>, <<"hi">> >>),
      Frame(<< <<"echo">>, <<"hi">> >>),
      Frame(<< <<"SET">>, Key1, <<"v1">>, <<"PX">>, <<"1">> >>),
      Frame(<< <<"config">>, <<"get">>, <<"port">> >>),
      Frame(<< <<"CONFIG">> >>),
      <<"*", "2", CRLF>> \o Bulk(<<"CONFIG">>) \o <<"$", "3", CRLF, "GET">>,
      Frame(<< <<"FOOBAR">> >>),
      <<"PING", CRLF>>,
      <<"*", "2", CRLF>> \o Bulk(<<"GET">>),
      Frame(<< <<"GET">>, <<BadByte>> >>),
      Frame(<< <<"GET">>, Key1 >>) \o Frame(<< <<"GET">>, Key1 >>),
      Frame(<< <<"PING">> >>) \o Frame(<< <<"SET">>, Key1, <<"v2">> >>) }

\* The request frames a buffer holds: each starts a segment with "*".
IsFrameStart(s) == starts_with(s, "*")
CountFrames(input) == Len(SelectSeq(split(input), IsFrameStart))

\* -------------------------------------------------------------- startup
\* The file at {dir}/{dbfilename}: absent, or bytes that are UTF-8 text or
\* are not.  The text of a file is a sequence of characters.
NoFile == [exists |-> FALSE, utf8 |-> TRUE, text |-> <<>>]
TextFile(text) == [exists |-> TRUE, utf8 |-> TRUE, text |-> text]
BinaryFile == [exists |-> TRUE, utf8 |-> FALSE, text |-> <<>>]

\* str::to_lowercase on the argument names the inputs use.
LowerTok(t) == IF t = "--DIR" THEN "--dir" ELSE t
to_lowercase(s) == [i \in DOMAIN s |-> LowerTok(s[i])]

\* chunks(2) of parse_cli_arguments: (name in lower case, value) for each
\* full pair.
RECURSIVE ArgPairs(_)
ArgPairs(s) ==
    IF Len(s) < 2 THEN <<>>
    ELSE << <<to_lowercase(s[1]), s[2]>> >> \o ArgPairs(SubSeq(s, 3, Len(s)))

\* arguments::parse_cli_arguments.
parse_cli_arguments(options) == ArgPairs(SelectSeq(options, NonEmpty))

\* Config::set.
Config_set(cfg, key, value) ==
    [k \in DOMAIN cfg \cup {key} |-> IF k = key THEN value ELSE cfg[k]]

\* arguments::process_configuration_arguments on the arguments left, with
\* the Config and the file as they are.  create_dir_all and File::create
\* succeed.  "--dbfilename" unwraps config.get("dir").
RECURSIVE process_configuration_arguments(_, _, _)
process_configuration_arguments(arguments, cfg, f) ==
    IF arguments = <<>> THEN [panicked |-> FALSE, config |-> cfg, file |-> f]
    ELSE LET argument == Head(arguments)[1]
             argument_value == Head(arguments)[2]
         IN CASE argument = <<"--dir">> ->
                   process_configuration_arguments(
                       Tail(arguments), Config_set(cfg, <<"dir">>, argument_value), f)
              [] argument = <<"--dbfilename">> ->
                   IF ~IsSome(Config_get(cfg, <<"dir">>))
                   THEN [panicked |-> TRUE,
                         config |-> Config_set(cfg, <<"dbfilename">>, argument_value),
                         file |-> f]
                   ELSE process_configuration_arguments(
                            Tail(arguments),
                            Config_set(cfg, <<"dbfilename">>, argument_value),
                            IF f.exists THEN f ELSE TextFile(<<>>))
              [] argument = <<"--replicaof">> ->
                   process_configuration_arguments(
                       Tail(arguments), Config_set(cfg, <<"replicaof">>, argument_value), f)
              [] OTHER ->
                   process_configuration_arguments(
                       Tail(arguments),
                       Config_set(Config_set(cfg, <<"replication_id">>, <<"nanoid">>),
                                  <<"replication_offset">>, <<"0">>),
                       f)

\* str::to_uppercase on the characters of the file.
UpperChar(c) ==
    CASE c = "a" -> "A" [] c = "b" -> "B" [] c = "c" -> "C" [] c = "d" -> "D"
      [] c = "e" -> "E" [] c = "f" -> "F" [] OTHER -> c
upper_chars(text) == [i \in DOMAIN text |-> UpperChar(text[i])]

\* str::trim: the white space at both ends goes.
IsSpace(c) == c \in {" ", "\n", "\r", "\t"}
RECURSIVE trim_start(_)
trim_start(text) ==
    IF text # <<>> /\ IsSpace(Head(text)) THEN trim_start(Tail(text)) ELSE text
RECURSIVE trim_end(_)
trim_end(text) ==
    IF text # <<>> /\ IsSpace(text[Len(text)])
    THEN trim_end(SubSeq(text, 1, Len(text) - 1)) ELSE text
trim(text) == trim_end(trim_start(text))

\* hex::decode: two hexadecimal digits, of either case, for each byte.
HexDigits == <<"0", "1", "2", "3", "4", "5", "6", "7", "8", "9",
               "A", "B", "C", "D", "E", "F">>
HexValue(c) == (CHOOSE i \in DOMAIN HexDigits : HexDigits[i] = UpperChar(c)) - 1
IsHexDigit(c) == \E i \in DOMAIN HexDigits : HexDigits[i] = UpperChar(c)
hex_decode(text) ==
    IF Len(text) % 2 # 0 \/ \E i \in DOMAIN text : ~IsHexDigit(text[i]) THEN None
    ELSE Some([i \in 1..(Len(text) \div 2) |->
                  16 * HexValue(text[2 * i - 1]) + HexValue(text[2 * i])])

\* No RDBParser was built.
NoParser == returned(RDBParser_new(<<>>), "none")

\* parse has returned on the bytes of the file.
loaded(parser) == [panicked |-> parser.result = "Panic", parser |-> parser]

\* hex::decode has returned.
decoded(rdb_data) ==
    IF ~IsSome(rdb_data) THEN [panicked |-> TRUE, parser |-> NoParser]
    ELSE loaded(parse(RDBParser_new(Unwrap(rdb_data))))

\* database::populate_hot_storage, from the two guards it takes to its
\* return: the path is built from "dir" and "dbfilename", both unwrapped; the
\* file is read as text (unwrapped), put in upper case, trimmed and decoded
\* from hexadecimal (expect); parse runs on the bytes; its Err is printed and
\* its Ok only counted.  The Storage is never written.
populate_hot_storage(cfg, f) ==
    IF ~IsSome(Config_get(cfg, <<"dir">>)) \/ ~IsSome(Config_get(cfg, <<"dbfilename">>))
    THEN [panicked |-> TRUE, parser |-> NoParser]
    ELSE IF ~f.exists \/ ~f.utf8 THEN [panicked |-> TRUE, parser |-> NoParser]
    ELSE decoded(hex_decode(trim(upper_chars(f.text))))

\* ------------------------------------------------------------ snapshots
\* "REDIS0003"
Header == <<82, 69, 68, 73, 83, 48, 48, 48, 51>>

\* A string of fewer than 64 bytes behind its one-byte length.
Str(bytes) == <<Len(bytes)>> \o bytes

\* A pair of the database section: mark is "none", or "s" for an expiry in
\* seconds (0xFD and four bytes), or "ms" for one in milliseconds (0xFC and
\* eight bytes).
Pair(mark, expiry, key, value) ==
    [mark |-> mark, expiry |-> expiry, key |-> key, value |-> value]

\* The bytes of a string-typed (tag 0) pair.
PairBytes(p) ==
    (CASE p.mark = "s" -> <<253>> \o to_le_bytes(p.expiry, 4)
       [] p.mark = "ms" -> <<252>> \o to_le_bytes(p.expiry, 8)
       [] OTHER -> <<>>)
    \o <<0>> \o Str(p.key) \o Str(p.value)

RECURSIVE SectionBytes(_)
SectionBytes(pairs) ==
    IF pairs = <<>> THEN <<>> ELSE PairBytes(Head(pairs)) \o SectionBytes(Tail(pairs))

\* A snapshot: header, auxiliary fields, database selector, pairs, 0xFF and
\* whatever follows it.
Snapshot(aux, selector, pairs, tail) ==
    Header \o aux \o selector \o SectionBytes(pairs) \o <<255>> \o tail

\* The pairs the snapshots are made of: "a" -> "v" and "b" -> "w", plain and
\* with an expiry.
PairChoices ==
    {Pair("none", 0, <<97>>, <<118>>), Pair("none", 0, <<98>>, <<119>>),
     Pair("s", 1, <<97>>, <<118>>), Pair("ms", 2, <<98>>, <<119>>)}

PairLists == UNION {[1..n -> PairChoices] : n \in 0..MaxPairs}

\* No auxiliary field; or the field "a" with the string "v" and the field "b"
\* with the integer 0xC0 0x40.
AuxChoices == {<<>>, <<250>> \o Str(<<97>>) \o Str(<<118>>)
                     \o <<250>> \o Str(<<98>>) \o <<192, 64>>}

\* No selector; or database 0 with the sizes 2 and 1.
SelectorChoices == {<<>>, <<254, 0, 251, 2, 1>>}

\* Nothing after 0xFF; or two bytes of a checksum.
TailChoices == {<<>>, <<32, 179>>}

\* The snapshot of "baz" -> "zag" and "foo" -> "bar", no expiry.
BazFoo ==
    << Pair("none", 0, <<98, 97, 122>>, <<122, 97, 103>>),
       Pair("none", 0, <<102, 111, 111>>, <<98, 97, 114>>) >>

\* What a buffer was built from: its pairs, and whether it is the whole
\* snapshot or was cut short.
Given(pairs, whole) == [pairs |-> pairs, whole |-> whole]
NotGiven == Given(<<>>, FALSE)

\* A snapshot and all that is left of it when it is cut at any place.
Cuts(pairs, bytes) ==
    {[given |-> Given(pairs, n = Len(bytes)), data |-> SubSeq(bytes, 1, n)] :
       n \in 0..Len(bytes)}

\* Database sections with values that are not strings: a list of two, a set
\* of one, a sorted set of one, a hash of one, the integers 0xC0 to 0xC3 and
\* a packed one, a raw byte (tag 55); then an unknown tag, a bad magic, a bad
\* version, and the length 255.
OtherBuffers ==
    {Header \o <<1>> \o Str(<<97>>) \o <<2>> \o Str(<<118>>) \o Str(<<119>>) \o <<255>>,
     Header \o <<2>> \o Str(<<97>>) \o <<1>> \o Str(<<118>>) \o <<255>>,
     Header \o <<3>> \o Str(<<97>>) \o <<1>> \o Str(<<118>>) \o <<7>> \o <<255>>,
     Header \o <<4>> \o Str(<<97>>) \o <<1>> \o Str(<<118>>) \o Str(<<119>>) \o <<255>>,
     Header \o <<9>> \o Str(<<97>>) \o <<192, 5>>
            \o <<10>> \o Str(<<97>>) \o <<193, 5, 128>>
            \o <<11>> \o Str(<<97>>) \o <<194, 1, 2, 3, 4>> \o <<255>>,
     Header \o <<12>> \o Str(<<97>>) \o <<195, 1, 2, 3, 4, 5, 6, 7, 8>>
            \o <<9>> \o Str(<<97>>) \o <<200>> \o <<255>>,
     Header \o <<55>> \o Str(<<97>>) \o <<7>> \o <<255>>,
     Header \o <<5>> \o Str(<<97>>) \o Str(<<118>>) \o <<255>>,
     <<82, 69, 68, 73, 255, 48, 48, 48, 51, 255>>,
     <<82, 69, 68, 73, 88, 48, 48, 48, 51, 255>>,
     <<82, 69, 68, 73, 83, 43, 48, 48, 51, 255>>,
     <<82, 69, 68, 73, 83, 48, 48, 120, 51, 255>>,
     Header \o <<0, 255>>,
     Header \o <<0>> \o Str(<<97>>) \o <<64, 1, 118>>,
     Header \o <<0>> \o Str(<<97>>) \o <<128, 0, 0, 1, 118, 255>>,
     Header \o <<0>> \o Str(<<97>>) \o <<254, 1, 0, 0, 0, 118, 255>>}

\* The buffers the decoder is run on.
DecodeInputs ==
    UNION {Cuts(pairs, Snapshot(aux, selector, pairs, tail)) :
             <<aux, selector, pairs, tail>> \in
                 AuxChoices \X SelectorChoices \X PairLists \X TailChoices}
    \cup Cuts(BazFoo, Snapshot(<<>>, <<>>, BazFoo, <<>>))
    \cup UNION {{[c EXCEPT !.given = NotGiven] : c \in Cuts(<<>>, bytes)} :
                  bytes \in OtherBuffers}

\* The text of a file that holds bytes in hexadecimal, in lower case.
LowerHexDigits == <<"0", "1", "2", "3", "4", "5", "6", "7", "8", "9",
                    "a", "b", "c", "d", "e", "f">>
RECURSIVE HexText(_)
HexText(bytes) ==
    IF bytes = <<>> THEN <<>>
    ELSE <<LowerHexDigits[(Head(bytes) \div 16) + 1], LowerHexDigits[(Head(bytes) % 16) + 1]>>
         \o HexText(Tail(bytes))

\* The files startup finds: none; one that is not text; an empty one; text
\* that is not hexadecimal; the snapshots of "a" -> "v", plain and with an
\* expiry and followed by a newline; a snapshot cut after its expiry marker.
FileInputs ==
    {[given |-> NotGiven, file |-> NoFile],
     [given |-> NotGiven, file |-> BinaryFile],
     [given |-> NotGiven, file |-> TextFile(<<>>)],
     [given |-> NotGiven, file |-> TextFile(<<"z", "z">>)],
     [given |-> Given(<<Pair("none", 0, <<97>>, <<118>>)>>, TRUE),
      file |-> TextFile(HexText(Snapshot(<<>>, <<254, 0>>,
                                         <<Pair("none", 0, <<97>>, <<118>>)>>, <<>>)))],
     [given |-> Given(<<Pair("s", 1, <<97>>, <<118>>)>>, TRUE),
      file |-> TextFile(HexText(Snapshot(<<>>, <<>>,
                                         <<Pair("s", 1, <<97>>, <<118>>)>>, <<>>))
                        \o <<"\n">>)],
     [given |-> NotGiven, file |-> TextFile(HexText(Header \o <<253>>))]}

\* The command lines startup is given.
CliInputs ==
    {<<>>,
     << <<"--dir">>, <<"/tmp/redis-files">>, <<"--dbfilename">>, <<"dump.rdb">> >>,
     << <<"--DIR">>, <<"/tmp/redis-files">>, <<"--dbfilename">>, <<"dump.rdb">> >>,
     << <<"--dbfilename">>, <<"dump.rdb">>, <<"--dir">>, <<"/tmp/redis-files">> >>,
     << <<"--dir">>, <<"/tmp/redis-files">> >>,
     << <<"--port">>, <<"6380">> >>}

\* The buffer a client sends after startup.
LoadInputs == {Frame(<< <<"GET">>, Key1 >>)}

\* ------------------------------------------- functions called on their own
Call(fn, arg) == [fn |-> fn, arg |-> arg, out |-> None]
NoCall == Call("none", <<>>)

\* The options Storage::set is given: EX and PX with values that parse,
\* values that do not, a name set does not know, and a name in lower case.
OptionChoices ==
    {<< <<"EX">>, <<"1">> >>, << <<"EX">>, <<"2">> >>, << <<"PX">>, <<"1">> >>,
     << <<"PX">>, <<"2">> >>, << <<"EX">>, <<"-1">> >>, << <<"PX">>, <<"abc">> >>,
     << <<"XX">>, <<"1">> >>, << <<"ex">>, <<"1">> >>}

OptionLists == UNION {[1..n -> OptionChoices] : n \in 0..MaxOptions}

\* The map set is called on: empty, or holding an entry for the key that
\* expires.
MapChoices == {<<>>, Key1 :> StorageValue(<<"v0">>, 0, Some(7))}

SetCalls ==
    {Call("Storage::set",
          [map |-> map, key |-> Key1, value |-> <<"v1">>, options |-> options, t |-> t]) :
       <<map, options, t>> \in MapChoices \X OptionLists \X {0, 3}}

\* SET frames: SET a v1 followed by up to MaxOptionWords words, whole or cut
\* at any place after the command's name.
OptionWords == {<<"ex">>, <<"PX">>, <<"1">>}
WordLists == UNION {[1..n -> OptionWords] : n \in 0..MaxOptionWords}
SetFrames ==
    UNION {{SubSeq(Frame(<< <<"SET">>, Key1, <<"v1">> >> \o words), 1, n) :
              n \in 7..Len(Frame(<< <<"SET">>, Key1, <<"v1">> >> \o words))} :
             words \in WordLists}
ParseCalls == {Call("parse_command", frame) : frame \in SetFrames}

\* Buffers for decode_length: a first byte at either end of each form, then
\* up to MaxTail bytes.
FirstBytes == {0, 5, 63, 64, 65, 127, 128, 129, 191, 192, 200, 253, 254, 255}
TailBytes == {0, 1, 2}
Tails == UNION {[1..n -> TailBytes] : n \in 0..MaxTail}
LengthCalls ==
    {Call("decode_length", <<>>)}
    \cup {Call("decode_length", <<b>> \o tail) : <<b, tail>> \in FirstBytes \X Tails}

\* ------------------------------------------------------------------ Init
\* No connection is accepted yet and the clock reads 0.
NoConnection ==
    /\ now = 0
    /\ nticks = 0
    /\ store = <<>>
    /\ storageLock = NoOwner
    /\ configLock = NoOwner
    /\ pc = [c \in Conns |-> "idle"]
    /\ cmd = [c \in Conns |-> NoCommand]
    /\ found = [c \in Conns |-> None]
    /\ ret = [c \in Conns |-> None]
    /\ response = [c \in Conns |-> <<>>]
    /\ nreads = 0
    /\ pending = [c \in Conns |-> 0]
    /\ lastOp = <<"none", <<>>>>
    /\ lastSet = [k \in Keys |-> None]
    /\ prevExpiry = [k \in Keys |-> None]
    /\ goneGets = [k \in Keys |-> 0]

\* The command line of a server with a snapshot file, and the Config it gives.
StartedCli == << <<"--dir">>, <<"/tmp/redis-files">>, <<"--dbfilename">>, <<"dump.rdb">> >>
StartedConfig ==
    (<<"dir">> :> <<"/tmp/redis-files">>) @@ (<<"dbfilename">> :> <<"dump.rdb">>)

\* Startup is over: main has parsed the arguments, bound the listener and
\* built the shared Storage and Config; the file was created empty, parse
\* found it too short and main is in its accept loop.
Started ==
    /\ NoConnection
    /\ config = StartedConfig
    /\ mainpc = "accept"
    /\ cli = StartedCli
    /\ file = TextFile(<<>>)
    /\ rdb = parse(RDBParser_new(<<>>))
    /\ given = NotGiven

Init == Started /\ call = NoCall

\* --------------------------------------------------------- the two mutexes
\* A storage mutex that any task may take at any time.
StorageLockFree_always == TRUE

\* storage.lock().await returns once no task holds the guard.
StorageLockFree == storageLock = NoOwner

ConfigLockFree == configLock = NoOwner

\* ---------------------------------------------------------------- actions
\* A step of a connection task runs from the await that resumed it to the next
\* await (read, lock, write); Storage::get is cut once more, between the drop
\* of its reference and its remove, where the DashMap is unlocked.
\* handle_connection also has arms for KEYS and INFO; parse_command returns
\* neither, so no step ever enters them.

\* The clock advances.
Tick ==
    /\ nticks < MaxTicks
    /\ \E d \in TickSteps : now' = now + d
    /\ nticks' = nticks + 1
    /\ UNCHANGED <<startupVars, call>>
    /\ UNCHANGED <<store, config, storageLock, configLock, pc, cmd, found, ret,
                   response, nreads, pending, lastOp, lastSet, prevExpiry, goneGets>>

\* listener.accept() returns a stream and handle_connection spawns its task.
Accept(c) ==
    /\ mainpc = "accept"
    /\ pc[c] = "idle"
    /\ \A d \in Conns : d < c => pc[d] # "idle"
    /\ pc' = [pc EXCEPT ![c] = "read"]
    /\ UNCHANGED <<startupVars, call>>
    /\ UNCHANGED <<now, nticks, store, config, storageLock, configLock, cmd, found,
                   ret, response, nreads, pending, lastOp, lastSet, prevExpiry, goneGets>>

\* The match arms that touch no shared state: PING, ECHO, UNKNOWN and Err.
arm_value(command) ==
    CASE command.tag = "PING" ->
           IF IsSome(command.a) THEN SimpleString(Unwrap(command.a))
           ELSE SimpleString(<<"PONG">>)
      [] command.tag = "ECHO" -> SimpleString(Unwrap(command.a))
      [] command.tag = "UNKNOWN" ->
           BulkString(Some(<<"ERR Unknown command: ">> \o Unwrap(command.a)))
      [] command.tag = "Err" ->
           BulkString(Some(<<"ERR Failed to parse command: ">> \o Unwrap(command.a)))

\* Where the task is suspended next, after parse_command returned command.
next_await(command) ==
    CASE command.tag = "Panic" -> "panicked"
      [] command.tag \in {"SET", "GET"} -> "lock"
      [] command.tag = "CONFIGGET" -> "config_lock"
      [] OTHER -> "write"

\* stream.read returns n > 0 bytes, parse_command runs on them and the match
\* arm runs up to its first await.  A panic in parse_command ends the task.
Read(c, inputs) ==
    /\ pc[c] = "read"
    /\ nreads < MaxReads
    /\ \E input \in inputs :
          LET command == parse_command(input) IN
            /\ cmd' = [cmd EXCEPT ![c] = command]
            /\ pending' = [pending EXCEPT ![c] = CountFrames(input)]
            /\ pc' = [pc EXCEPT ![c] = next_await(command)]
            /\ response' = [response EXCEPT
                              ![c] = IF next_await(command) = "write"
                                     THEN serialize_response(arm_value(command))
                                     ELSE <<>>]
    /\ nreads' = nreads + 1
    /\ UNCHANGED <<startupVars, call>>
    /\ UNCHANGED <<now, nticks, store, config, storageLock, configLock, found, ret,
                   lastOp, lastSet, prevExpiry, goneGets>>

\* stream.read returns Ok(0) or an error: the task leaves its loop.
ReadEnds(c) ==
    /\ pc[c] = "read"
    /\ pc' = [pc EXCEPT ![c] = "closed"]
    /\ UNCHANGED <<startupVars, call>>
    /\ UNCHANGED <<now, nticks, store, config, storageLock, configLock, cmd, found,
                   ret, response, nreads, pending, lastOp, lastSet, prevExpiry, goneGets>>

\* optional_ags.unwrap_or_default()
unwrap_or_default(o) == IF IsSome(o) THEN Unwrap(o) ELSE <<>>

\* The instant a set at instant at with the one option ("EX", n) asks for.
ExExpiry(set) ==
    IF Len(set.opts) = 1 /\ set.opts[1][1] = <<"EX">> /\ set.opts[1][2] \in DOMAIN DecimalValue
    THEN Some(set.at + DecimalValue[set.opts[1][2]] * MillisPerSec)
    ELSE None

\* The SET arm: storage.lock().await returns the guard, storage.set runs and
\* +OK is serialized.
HandleSet(c) ==
    /\ pc[c] = "lock" /\ cmd[c].tag = "SET"
    /\ StorageLockFree
    /\ storageLock' = c
    /\ LET key == Unwrap(cmd[c].a)
           value == Unwrap(cmd[c].b)
           options == unwrap_or_default(cmd[c].opts)
       IN /\ store' = Storage_set(store, key, value, options, now)
          /\ lastOp' = <<"set", key>>
          /\ lastSet' = [lastSet EXCEPT
                           ![key] = Some([value |-> value, opts |-> options, at |-> now])]
          /\ prevExpiry' = [prevExpiry EXCEPT
                              ![key] = IF IsSome(lastSet[key])
                                       THEN ExExpiry(Unwrap(lastSet[key])) ELSE None]
          /\ goneGets' = [goneGets EXCEPT ![key] = 0]
    /\ response' = [response EXCEPT ![c] = serialize_response(SimpleString(<<"OK">>))]
    /\ pc' = [pc EXCEPT ![c] = "write"]
    /\ UNCHANGED <<startupVars, call>>
    /\ UNCHANGED <<now, nticks, config, configLock, cmd, found, ret, nreads,
                   pending>>

\* Storage::get returns o and the GET arm serializes it as a bulk string.
GetReturn(c, o) ==
    /\ ret' = [ret EXCEPT ![c] = o]
    /\ response' = [response EXCEPT ![c] = serialize_response(BulkString(o))]
    /\ lastOp' = <<"get", Unwrap(cmd[c].a)>>
    /\ pc' = [pc EXCEPT ![c] = "write"]

\* The GET arm: storage.lock().await returns the guard and Storage::get runs
\* up to its decision: the lookup, the clock reading and the expiry test.  An
\* entry that is absent or live ends the call here; an expired one has its
\* reference dropped and the call goes on to remove it.
GetLookup(c) ==
    /\ pc[c] = "lock" /\ cmd[c].tag = "GET"
    /\ StorageLockFree
    /\ storageLock' = c
    /\ LET result == lookup(store, Unwrap(cmd[c].a)) IN
         IF IsSome(result) /\ is_expired(Unwrap(result), now)
         THEN /\ found' = [found EXCEPT ![c] = result]
              /\ pc' = [pc EXCEPT ![c] = "get_remove"]
              /\ UNCHANGED <<ret, response, lastOp, goneGets>>
         ELSE /\ GetReturn(c, IF IsSome(result) THEN Some(Unwrap(result).value) ELSE None)
              /\ goneGets' = [goneGets EXCEPT
                                ![Unwrap(cmd[c].a)] = IF ~IsSome(result) /\ @ >= 1 THEN 2 ELSE @]
              /\ UNCHANGED found
    /\ UNCHANGED <<startupVars, call>>
    /\ UNCHANGED <<now, nticks, store, config, configLock, cmd, nreads, pending,
                   lastSet, prevExpiry>>

\* Storage::get on an expired entry: self.remove(key), then None.
GetRemove(c) ==
    /\ pc[c] = "get_remove"
    /\ store' = Storage_remove(store, Unwrap(cmd[c].a))
    /\ found' = [found EXCEPT ![c] = None]
    /\ goneGets' = [goneGets EXCEPT ![Unwrap(cmd[c].a)] = 1]
    /\ GetReturn(c, None)
    /\ UNCHANGED <<startupVars, call>>
    /\ UNCHANGED <<now, nticks, config, storageLock, configLock, cmd, nreads,
                   pending, lastSet, prevExpiry>>

\* The CONFIG GET arm: config.lock().await returns the guard and the
\* two-element array [entry, value or ""] is serialized.
HandleConfigGet(c) ==
    /\ pc[c] = "config_lock"
    /\ ConfigLockFree
    /\ configLock' = c
    /\ LET entry == Unwrap(cmd[c].a)
           value == Config_get(config, entry)
       IN response' = [response EXCEPT
                         ![c] = serialize_response(
                                    Array(<<entry, IF IsSome(value) THEN Unwrap(value)
                                                   ELSE <<>> >>))]
    /\ pc' = [pc EXCEPT ![c] = "write"]
    /\ UNCHANGED <<startupVars, call>>
    /\ UNCHANGED <<now, nticks, store, config, storageLock, cmd, found, ret, nreads,
                   pending, lastOp, lastSet, prevExpiry, goneGets>>

\* The iteration ends: buf, the command and the guards of the arm are dropped.
EndIteration(c, next) ==
    /\ pc' = [pc EXCEPT ![c] = next]
    /\ cmd' = [cmd EXCEPT ![c] = NoCommand]
    /\ ret' = [ret EXCEPT ![c] = None]
    /\ response' = [response EXCEPT ![c] = <<>>]
    /\ storageLock' = IF storageLock = c THEN NoOwner ELSE storageLock
    /\ configLock' = IF configLock = c THEN NoOwner ELSE configLock

\* stream.write_all succeeds and the loop reads again.
WriteOk(c) ==
    /\ pc[c] = "write"
    /\ pending' = [pending EXCEPT ![c] = @ - 1]
    /\ EndIteration(c, "read")
    /\ UNCHANGED <<startupVars, call>>
    /\ UNCHANGED <<now, nticks, store, config, found, nreads, lastOp,
                   lastSet, prevExpiry, goneGets>>

\* stream.write_all fails: the task leaves its loop.
WriteFails(c) ==
    /\ pc[c] = "write"
    /\ EndIteration(c, "closed")
    /\ UNCHANGED <<startupVars, call>>
    /\ UNCHANGED <<now, nticks, store, config, found, nreads, pending,
                   lastOp, lastSet, prevExpiry, goneGets>>

\* --------------------------------------------------------------- startup
\* main up to populate_hot_storage: the arguments are parsed, the listener is
\* bound, the Config and the Storage are built and
\* process_configuration_arguments fills the Config.  A panic ends the
\* process.
ProcessArguments ==
    /\ mainpc = "args"
    /\ LET done == process_configuration_arguments(parse_cli_arguments(cli), config, file)
       IN /\ config' = done.config
          /\ file' = done.file
          /\ mainpc' = IF done.panicked THEN "aborted" ELSE "load"
    /\ UNCHANGED <<now, nticks, store, storageLock, configLock, pc, cmd, found, ret,
                   response, nreads, pending, lastOp, lastSet, prevExpiry, goneGets>>
    /\ UNCHANGED <<cli, rdb, given, call>>

\* populate_hot_storage, from its call to its return; both guards are taken
\* and dropped within it.  main goes on to its accept loop.
PopulateHotStorage ==
    /\ mainpc = "load"
    /\ rdb = NoParser
    /\ LET done == populate_hot_storage(config, file)
       IN /\ rdb' = done.parser
          /\ mainpc' = IF done.panicked THEN "aborted" ELSE "accept"
    /\ UNCHANGED <<serverVars, cli, file, given, call>>

\* The same call followed through parse, place by place.
ParseVersion ==
    /\ mainpc = "load" /\ rdb.at = "version"
    /\ rdb' = parse_step(rdb)
    /\ UNCHANGED <<serverVars, mainpc, cli, file, given, call>>

AuxTurn ==
    /\ mainpc = "load" /\ rdb.at = "aux" /\ aux_loop_runs(rdb)
    /\ rdb' = parse_step(rdb)
    /\ UNCHANGED <<serverVars, mainpc, cli, file, given, call>>

AuxEnd ==
    /\ mainpc = "load" /\ rdb.at = "aux" /\ ~aux_loop_runs(rdb)
    /\ rdb' = parse_step(rdb)
    /\ UNCHANGED <<serverVars, mainpc, cli, file, given, call>>

EntriesTurn ==
    /\ mainpc = "load" /\ rdb.at = "entries" /\ entries_loop_runs(rdb)
    /\ rdb' = parse_step(rdb)
    /\ UNCHANGED <<serverVars, mainpc, cli, file, given, call>>

EntriesEnd ==
    /\ mainpc = "load" /\ rdb.at = "entries" /\ ~entries_loop_runs(rdb)
    /\ rdb' = parse_step(rdb)
    /\ UNCHANGED <<serverVars, mainpc, cli, file, given, call>>

\* parse has returned or panicked, and populate_hot_storage with it.
ParseReturns ==
    /\ mainpc = "load" /\ rdb.at = "returned" /\ rdb.result # "none"
    /\ mainpc' = IF rdb.result = "Panic" THEN "aborted" ELSE "accept"
    /\ UNCHANGED <<serverVars, cli, file, rdb, given, call>>

\* ------------------------------------------------------------ lone calls
CallSet ==
    /\ call.fn = "Storage::set" /\ call.out = None
    /\ call' = [call EXCEPT !.out = Some(Storage_set(call.arg.map, call.arg.key,
                                                     call.arg.value, call.arg.options,
                                                     call.arg.t))]
    /\ UNCHANGED <<serverVars, startupVars>>

CallParseCommand ==
    /\ call.fn = "parse_command" /\ call.out = None
    /\ call' = [call EXCEPT !.out = Some(parse_command(call.arg))]
    /\ UNCHANGED <<serverVars, startupVars>>

CallDecodeLength ==
    /\ call.fn = "decode_length" /\ call.out = None
    /\ call' = [call EXCEPT !.out = Some(decode_length(call.arg))]
    /\ UNCHANGED <<serverVars, startupVars>>

\* ----------------------------------------------------------------- specs
\* Two connections carrying store traffic.
Next ==
    \/ Tick
    \/ \E c \in Conns :
          \/ Accept(c)
          \/ Read(c, StoreInputs)
          \/ ReadEnds(c)
          \/ HandleSet(c)
          \/ GetLookup(c)
          \/ GetRemove(c)
          \/ HandleConfigGet(c)
          \/ WriteOk(c)
          \/ WriteFails(c)

Spec == Init /\ [][Next]_vars

\* One connection carrying every kind of buffer.
WireNext ==
    \/ Tick
    \/ \E c \in {1} :
          \/ Accept(c)
          \/ Read(c, WireInputs)
          \/ ReadEnds(c)
          \/ HandleSet(c)
          \/ GetLookup(c)
          \/ GetRemove(c)
          \/ HandleConfigGet(c)
          \/ WriteOk(c)
          \/ WriteFails(c)

WireSpec == Init /\ [][WireNext]_vars

\* Startup on every command line and file, then one connection.
LoadInit ==
    /\ NoConnection
    /\ config = <<>>
    /\ mainpc = "args"
    /\ cli \in CliInputs
    /\ \E f \in FileInputs : file = f.file /\ given = f.given
    /\ rdb = NoParser
    /\ call = NoCall

LoadNext ==
    \/ ProcessArguments
    \/ PopulateHotStorage
    \/ \E c \in {1} :
          \/ Accept(c)
          \/ Read(c, LoadInputs)
          \/ ReadEnds(c)
          \/ GetLookup(c)
          \/ WriteOk(c)
          \/ WriteFails(c)

LoadSpec == LoadInit /\ [][LoadNext]_vars

\* The decoder on every buffer, place by place.
DecodeInit ==
    /\ NoConnection
    /\ config = StartedConfig
    /\ mainpc = "load"
    /\ cli = StartedCli
    /\ \E input \in DecodeInputs :
          /\ file = TextFile(HexText(input.data))
          /\ rdb = RDBParser_new(input.data)
          /\ given = input.given
    /\ call = NoCall

DecodeNext ==
    \/ ParseVersion
    \/ AuxTurn
    \/ AuxEnd
    \/ EntriesTurn
    \/ EntriesEnd
    \/ ParseReturns

DecodeSpec == DecodeInit /\ [][DecodeNext]_vars

\* parse is not suspended anywhere: it runs on to its return.
DecodeFairSpec == DecodeInit /\ [][DecodeNext]_vars /\ WF_vars(DecodeNext)

\* Storage::set, parse_command and decode_length, each on its own.
SetInit == Started /\ call \in SetCalls
SetSpec == SetInit /\ [][CallSet]_vars

ParseInit == Started /\ call \in ParseCalls
ParseSpec == ParseInit /\ [][CallParseCommand]_vars

LengthInit == Started /\ call \in LengthCalls
LengthSpec == LengthInit /\ [][CallDecodeLength]_vars

\* ================================================================ claims
\* Connection c has called Storage::get on key k.
GetOn(c, k) == cmd[c].tag = "GET" /\ cmd[c].a = Some(k)

\* The step in which the Storage::get of c starts: the lookup.
GetStarts(c) == pc[c] = "lock" /\ cmd[c].tag = "GET" /\ pc'[c] # "lock"

\* The step in which the Storage::get of c returns.
GetReturns(c) ==
    /\ cmd[c].tag = "GET"
    /\ pc[c] \in {"lock", "get_remove"}
    /\ pc'[c] = "write"

\* A response of the Error type starts with "-".
IsErrorWire(wire) == wire # <<>> /\ wire[1] = "-"

\* C1: Storage::get(k) at instant now returns nothing when k has no entry;
\* removes the entry and returns nothing when its expires_at is set and at or
\* before now (expires_at <= now, equality included); otherwise returns the
\* stored value and leaves the store unchanged.
C1_GetContract ==
    [][\A c \in Conns :
          /\ GetStarts(c) =>
               LET result == lookup(store, Unwrap(cmd[c].a)) IN
                 IF ~IsSome(result)
                 THEN ret'[c] = None /\ pc'[c] = "write" /\ store' = store
                 ELSE IF /\ IsSome(Unwrap(result).expires_at)
                         /\ Unwrap(Unwrap(result).expires_at) <= now
                      THEN pc'[c] = "get_remove"
                      ELSE /\ pc'[c] = "write"
                           /\ ret'[c] = Some(Unwrap(result).value)
                           /\ store' = store
          /\ (pc[c] = "get_remove" /\ pc'[c] = "write") =>
               /\ Unwrap(cmd[c].a) \notin DOMAIN store'
               /\ ret'[c] = None
      ]_vars

\* C2: set(k, v, [("EX","0")]) followed immediately by get(k) returns nothing,
\* also when the clock reads the same instant in both calls.
C2_TtlLaw ==
    [][\A c \in Conns : \A k \in Keys :
          ( /\ GetReturns(c) /\ GetOn(c, k)
            /\ lastOp = <<"set", k>>
            /\ Unwrap(lastSet[k]).opts = << << <<"EX">>, <<"0">> >> >> )
          => ret'[c] = None
      ]_vars

\* The last set of k had no options and the set before it had the one option
\* ("EX", n).
Overwritten(k) ==
    /\ IsSome(lastSet[k])
    /\ Unwrap(lastSet[k]).opts = <<>>
    /\ IsSome(prevExpiry[k])

\* C3: after set(k, v1, [("EX", n)]) followed by set(k, v2, []), every get(k)
\* returns v2, at any later time, until k is set again: the entry holds v2 and
\* no expiry of the earlier entry survives the overwrite.
C3_OverwriteLaw ==
    [][\A c \in Conns : \A k \in Keys :
          (GetReturns(c) /\ GetOn(c, k) /\ Overwritten(k))
          => /\ ret'[c] = Some(Unwrap(lastSet[k]).value)
             /\ k \in DOMAIN store'
             /\ store'[k].expires_at = None
      ]_vars

\* A get returned v2 after the overwrite, later than the n seconds of the
\* earlier set.
C3_Witness ==
    \E c \in Conns : \E k \in Keys :
       /\ pc[c] = "write" /\ GetOn(c, k) /\ Overwritten(k)
       /\ now > Unwrap(prevExpiry[k])
       /\ ret[c] = Some(Unwrap(lastSet[k]).value)

\* C4: once a get(k) has found the entry expired, it is evicted, and every
\* get(k) after it returns nothing as long as no set(k, ...) intervenes.
C4_ExpiryIdempotence ==
    \A k \in Keys :
       goneGets[k] >= 1 =>
          /\ k \notin DOMAIN store
          /\ \A c \in Conns : (pc[c] = "write" /\ GetOn(c, k)) => ret[c] = None

\* A second get has returned nothing after the one that evicted the entry.
C4_Witness ==
    \E c \in Conns : \E k \in Keys :
       goneGets[k] = 2 /\ pc[c] = "write" /\ GetOn(c, k) /\ ret[c] = None

\* C5: store operations exclude each other.  Every entry of the map is in
\* full the entry the last set of its key installed, and a get that returned
\* a value returned that set's value.  While the get of one task is between
\* reading an expired entry and removing it, the task holds the Storage
\* mutex, no other task is inside a store operation, and the entry it is
\* about to remove is still the expired one it read, not one a concurrent set
\* installed since.
C5_StoreOpsAtomic ==
    /\ \A k \in DOMAIN store :
          /\ IsSome(lastSet[k])
          /\ store[k].value = Unwrap(lastSet[k]).value
          /\ store[k].created_at = Unwrap(lastSet[k]).at
    /\ \A c \in Conns :
          /\ (pc[c] = "write" /\ cmd[c].tag = "GET" /\ IsSome(ret[c])) =>
                ret[c] = Some(Unwrap(lastSet[Unwrap(cmd[c].a)]).value)
          /\ pc[c] = "get_remove" =>
                /\ storageLock = c
                /\ lookup(store, Unwrap(cmd[c].a)) = found[c]
                /\ \A d \in Conns \ {c} : pc[d] # "get_remove"

\* A get is about to remove the expired entry while another task waits for
\* the mutex to set the same key.
C5_Witness ==
    \E c \in Conns : \E d \in Conns \ {c} :
       /\ pc[c] = "get_remove"
       /\ pc[d] = "lock" /\ cmd[d].tag = "SET" /\ cmd[d].a = cmd[c].a

\* C6: no network I/O happens while the Storage mutex is held: a task that is
\* writing its response or reading from the socket has released the guard.
C6_NoIoUnderLock ==
    \A c \in Conns : pc[c] \in {"read", "write"} => storageLock # c

\* C7: every command frame a connection sent is processed and answered, in
\* order, before the next: when the task is back at its read, no frame of the
\* buffer it read last is left without a response.
C7_ArrivalOrder ==
    \A c \in Conns : pc[c] = "read" => pending[c] = 0

\* C8: parse_command returns a Command or a ProtocolError for every buffer; a
\* frame with too few segments for its command never makes it panic.
C8_ParseNeverPanics ==
    \A c \in Conns :
       /\ pc[c] # "panicked"
       /\ cmd[c].tag \in CommandTags \cup {"Err", "none"}

\* C9: when parse_command fails, the response the task writes is an Error
\* wire value (-<text>\r\n), and after the write the task reads again.
C9_ParseErrorIsErrorWire ==
    \A c \in Conns :
       (pc[c] = "write" /\ cmd[c].tag = "Err") => IsErrorWire(response[c])

\* C10: a well-formed frame with an unknown command name (FOOBAR) parses as
\* UNKNOWN(name), and the response the task writes to it is an Error wire
\* value.
C10_UnknownIsErrorWire ==
    /\ parse_command(Frame(<< <<"FOOBAR">> >>)) = UNKNOWN(<<"FOOBAR">>)
    /\ \A c \in Conns :
          (pc[c] = "write" /\ cmd[c].tag = "UNKNOWN") => IsErrorWire(response[c])

\* ------------------------------------------------------------------ C11
\* The text of bytes that are letters, one character to a token.
ByteChar == (97 :> "a") @@ (98 :> "b") @@ (118 :> "v") @@ (119 :> "w")
text_of(bytes) == [i \in DOMAIN bytes |-> ByteChar[bytes[i]]]

\* C11: once startup has completed on a snapshot that was decoded
\* successfully, every decoded non-expiring entry is in the store under its
\* key with its value, and a get of that key returns the value.
C11_LoaderContract ==
    (mainpc = "accept" /\ rdb.result = "Ok") =>
        \A i \in DOMAIN rdb.entries :
            LET k == text_of(rdb.entries[i].key)
                v == text_of(rdb.entries[i].value)
            IN /\ k \in DOMAIN store
               /\ store[k].value = v
               /\ \A c \in Conns : (pc[c] = "write" /\ GetOn(c, k)) => ret[c] = Some(v)

\* ------------------------------------------------------------------ C12
\* No snapshot can be read: dir or dbfilename is not configured, or the file
\* is missing, or it cannot be read as text.
SnapshotUnavailable ==
    \/ ~IsSome(Config_get(config, <<"dir">>))
    \/ ~IsSome(Config_get(config, <<"dbfilename">>))
    \/ ~file.exists
    \/ ~file.utf8

\* C12: a load step that finds no snapshot it can read ends with main in its
\* accept loop and the store empty; it does not abort the process.
C12_MissingSnapshotNonFatal ==
    [][(mainpc = "load" /\ SnapshotUnavailable) => (mainpc' = "accept" /\ store' = <<>>)]_vars

\* ------------------------------------------------------------------ C13
\* C13: on every buffer, whole or cut at any place, parse returns Ok or Err,
\* never panics on a read past the end, and an Err leaves no entry behind.
C13_DecodeNeverPanics ==
    rdb.at = "returned" =>
        /\ rdb.result \in {"Ok", "Err"}
        /\ rdb.result = "Err" => (rdb.entries = <<>> /\ rdb.expiry_entries = <<>>)

\* ------------------------------------------------------------------ C14
Unmarked(p) == p.mark = "none"
Marked(p) == p.mark # "none"
AsEntry(p) == [kind |-> "entry", key |-> p.key, value |-> p.value, expiry |-> 0]
AsExpiryEntry(p) ==
    [kind |-> "expiry", key |-> p.key, value |-> p.value,
     expiry |-> IF p.mark = "s" THEN p.expiry * MillisPerSec ELSE p.expiry]
EntriesOf(pairs) ==
    LET plain == SelectSeq(pairs, Unmarked) IN [i \in DOMAIN plain |-> AsEntry(plain[i])]
ExpiryEntriesOf(pairs) ==
    LET timed == SelectSeq(pairs, Marked) IN [i \in DOMAIN timed |-> AsExpiryEntry(timed[i])]

\* C14: decoding a whole snapshot of string-typed pairs ended by 0xFF succeeds
\* and yields exactly the pairs without an expiry marker, in file order, as
\* non-expiring entries and exactly the marked pairs as expiring entries,
\* whatever bytes follow 0xFF.
C14_EntriesScan ==
    (rdb.at = "returned" /\ given.whole) =>
        /\ rdb.result = "Ok"
        /\ rdb.entries = EntriesOf(given.pairs)
        /\ rdb.expiry_entries = ExpiryEntriesOf(given.pairs)

\* A snapshot with a plain pair and a marked pair and bytes after 0xFF has
\* been decoded.
C14_Witness ==
    /\ rdb.at = "returned" /\ given.whole /\ rdb.result = "Ok"
    /\ Len(rdb.entries) = 1 /\ Len(rdb.expiry_entries) = 1
    /\ Cursor(rdb) + 1 < Len(rdb.data)

\* ------------------------------------------------------------- C15, C16
\* The call of Storage::set has returned.
SetReturned == call.fn = "Storage::set" /\ IsSome(call.out)

\* An option set recognizes, with a value that is an unsigned integer.
ValidOption(o) == o[1] \in {<<"EX">>, <<"PX">>} /\ o[2] \in {<<"0">>, <<"1">>, <<"2">>}

ValidAt(options) == {i \in DOMAIN options : ValidOption(options[i])}

LastValid(options) == CHOOSE i \in ValidAt(options) : \A j \in ValidAt(options) : j <= i

\* The instant option o asks for, on an entry created at t.
AskedExpiry(o, t) ==
    LET n == CASE o[2] = <<"0">> -> 0 [] o[2] = <<"1">> -> 1 [] OTHER -> 2
    IN IF o[1] = <<"EX">> THEN t + n * MillisPerSec ELSE t + n

HasName(options, name) == \E i \in ValidAt(options) : options[i][1] = name

\* C15: when both EX and PX appear with valid values, the stored entry
\* expires at the instant the later of the valid expiry options asks for.
C15_LastExpiryWins ==
    SetReturned =>
        LET a == call.arg
            entry == Unwrap(call.out)[a.key]
        IN (HasName(a.options, <<"EX">>) /\ HasName(a.options, <<"PX">>)) =>
               entry.expires_at = Some(AskedExpiry(a.options[LastValid(a.options)], a.t))

\* set has returned on EX 1 followed by PX 2.
C15_Witness ==
    /\ SetReturned
    /\ call.arg.options = << << <<"EX">>, <<"1">> >>, << <<"PX">>, <<"2">> >> >>
    /\ Unwrap(call.out)[call.arg.key].expires_at = Some(call.arg.t + 2)

\* C16: with an option whose value is not an unsigned integer or whose name
\* is unknown in the list, the entry is still created with the value given;
\* it expires when the valid options of the list say, and never when there
\* is none.
C16_BadOptionsSkipped ==
    SetReturned =>
        LET a == call.arg
            out == Unwrap(call.out)
        IN (\E i \in DOMAIN a.options : ~ValidOption(a.options[i])) =>
               /\ a.key \in DOMAIN out
               /\ out[a.key].value = a.value
               /\ out[a.key].created_at = a.t
               /\ out[a.key].expires_at =
                      IF ValidAt(a.options) = {} THEN None
                      ELSE Some(AskedExpiry(a.options[LastValid(a.options)], a.t))

\* set has returned on EX -1 followed by XX 1, over an entry that expired.
C16_Witness ==
    /\ SetReturned
    /\ call.arg.options = << << <<"EX">>, <<"-1">> >>, << <<"XX">>, <<"1">> >> >>
    /\ call.arg.map # <<>>
    /\ Unwrap(call.out)[call.arg.key].expires_at = None

\* ------------------------------------------------------------------ C17
\* The call of parse_command has returned.
ParseReturned == call.fn = "parse_command" /\ IsSome(call.out)

\* A segment that is neither empty nor a length marker.
IsToken(s) == s # <<>> /\ s[1] # "$"

\* The options a SET frame carries: the tokens from segment 8 on, two by two.
OptionsIn(parts) ==
    LET tokens == SelectSeq(SubSeq(parts, 9, Len(parts)), IsToken)
    IN [i \in 1..(Len(tokens) \div 2) |->
          <<to_uppercase(tokens[2 * i - 1]), tokens[2 * i]>>]

OptionsOf(command) == IF command.opts = None THEN <<>> ELSE Unwrap(command.opts)

\* C17: a SET frame of at least 7 segments parses to Set with the key of
\* segment 4, the value of segment 6 and the options of the segments from 8
\* on; a SET frame of fewer than 7 segments is an error.
C17_SetFrameParse ==
    ParseReturned =>
        LET parts == split(call.arg)
            out == Unwrap(call.out)
        IN IF Len(parts) >= 7
           THEN /\ out.tag = "SET"
                /\ out.a = Some(Part(parts, 4))
                /\ out.b = Some(Part(parts, 6))
                /\ OptionsOf(out) = OptionsIn(parts)
           ELSE out.tag = "Err"

\* ------------------------------------------------------------------ C18
\* The call of decode_length has returned.
LengthReturned == call.fn = "decode_length" /\ IsSome(call.out)

IsOk(out, n, v) == out.tag = "Ok" /\ out.n = n /\ out.v = v

\* C18: decode_length returns, by the first byte, (1, b0) up to 63, (2, the
\* low six bits of b0 and b1) up to 127, 4 bytes consumed up to 191,
\* (1, b0 - 192) up to 253, (5, the next four bytes little-endian) on 254 and
\* an error on 255; a form that needs more bytes than the buffer holds is an
\* error.
C18_DecodeLength ==
    LengthReturned =>
        LET data == call.arg
            out == Unwrap(call.out)
        IN IF data = <<>> THEN out.tag = "Err"
           ELSE CASE data[1] \in 0..63 -> IsOk(out, 1, data[1])
                  [] data[1] \in 64..127 ->
                       IF Len(data) < 2 THEN out.tag = "Err"
                       ELSE IsOk(out, 2, (data[1] - 64) * 256 + data[2])
                  [] data[1] \in 128..191 ->
                       IF Len(data) < 4 THEN out.tag = "Err"
                       ELSE out.tag = "Ok" /\ out.n = 4
                  [] data[1] \in 192..253 -> IsOk(out, 1, data[1] - 192)
                  [] data[1] = 254 ->
                       IF Len(data) < 5 THEN out.tag = "Err"
                       ELSE IsOk(out, 5, data[2] + 256 * data[3] + 65536 * data[4]
                                         + 16777216 * data[5])
                  [] OTHER -> out.tag = "Err"

\* decode_length has returned (5, 258) on 0xFE 02 01 00 00.
C18_Witness ==
    /\ LengthReturned
    /\ call.arg = <<254, 2, 1, 0, 0>>
    /\ Unwrap(call.out) = DecodeOk(5, 258)

\* ------------------------------------------------------------------ C19
\* A turn of one of the two loops after which the loop goes on.
TurnGoesOn ==
    /\ rdb.at \in {"aux", "entries"}
    /\ rdb'.at = rdb.at
    /\ rdb'.turns = rdb.turns + 1

ForwardScan ==
    /\ Cursor(rdb') >= Cursor(rdb)
    /\ TurnGoesOn => Cursor(rdb') > Cursor(rdb)
    /\ rdb'.turns <= Len(rdb'.data)

\* C19: the cursor of parse never goes back, a turn of a loop that neither
\* returns nor stops at 0xFF moves it forward, the turns taken never exceed
\* the length of the buffer, and parse comes to its end on every buffer.
C19_ForwardScanEnds == [][ForwardScan]_vars /\ <>(rdb.at = "returned")

\* parse has returned Ok after turns of both loops: two auxiliary fields, a
\* selector, two pairs and 0xFF.
C19_Witness ==
    /\ rdb.at = "returned" /\ rdb.result = "Ok"
    /\ Len(rdb.aux_fields) = 2
    /\ rdb.turns = 6


====
